---- MODULE Spec2Model ----
(***************************************************************************)
(* A model of extract_godot_images.py: the batch loop of extract_images    *)
(* and the scan / validate / derive-name / write path of                   *)
(* extract_webp_from_ctex.                                                 *)
(*                                                                         *)
(* Bytes are integers, buffers are sequences of bytes, file names are      *)
(* sequences of one-character strings.  Python offsets are 0-based and     *)
(* are kept 0-based here; Slice translates them to TLA+ sequences.         *)
(* The top byte of a size field stays below 128 so that the decoded 32-bit *)
(* size fits TLC's integers; Python integers are unbounded, so             *)
(* pos + size + 8 never wraps and a larger size only overruns the buffer   *)
(* by more.                                                                *)
(* The output directory is assumed to be a directory other than the one    *)
(* holding the containers (the default is <project>/extracted_images).     *)
(***************************************************************************)
EXTENDS Integers, Sequences, FiniteSets, TLC

VARIABLES
    ctex_files,     \* the containers found by glob, in the order processed
    outdir,         \* the output directory: file name -> bytes
    i,              \* extract_images: 1-based index of the file of the loop
    pc,             \* "loop" | "scan" | "ret" | "done"
    data,           \* extract_webp_from_ctex: the bytes read
    pos,            \* extract_webp_from_ctex: the scan position
    result,         \* the (success, result) pair last returned
    success_count,
    failed_count,
    failed_files,
    examined,       \* history: the offsets data.find returned in this call
    returned,       \* history: the pair returned for each file so far
    io              \* history: how the I/O of the current call went

vars == <<ctex_files, outdir, i, pc, data, pos, result, success_count,
          failed_count, failed_files, examined, returned, io>>

-----------------------------------------------------------------------------
(* Bounds of the model *)

\* most pieces a scanned buffer is built from
MaxChunks == 4

\* most pieces the stem of a generated file name is built from
MaxNameParts == 3

\* most containers in one batch
MaxFiles == 2

\* most bytes a failed write leaves in the output file
MaxTorn == 1

\* most pieces of a buffer whose scan is checked for termination
LiveChunks == 2

-----------------------------------------------------------------------------
(* Python's sequence primitives *)

Min(a, b) == IF a < b THEN a ELSE b

\* s[a:b] for 0 <= a, 0 <= b: clamped to the sequence, empty when a >= b
Slice(s, a, b) == SubSeq(s, a + 1, Min(b, Len(s)))

RECURSIVE Flatten(_)
Flatten(ss) == IF ss = <<>> THEN <<>> ELSE Head(ss) \o Flatten(Tail(ss))

\* haystack.find(needle, start): the lowest offset >= start, or -1
RECURSIVE Find(_, _, _)
Find(hay, needle, start) ==
    IF start + Len(needle) > Len(hay) THEN -1
    ELSE IF Slice(hay, start, start + Len(needle)) = needle THEN start
    ELSE Find(hay, needle, start + 1)

\* needle in haystack
Contains(hay, needle) == Find(hay, needle, 0) # -1

\* s.split(sep)[0] for a one-character sep
BeforeFirst(s, sep) ==
    IF Contains(s, sep) THEN Slice(s, 0, Find(s, sep, 0)) ELSE s

\* s.replace(old, ""): every non-overlapping occurrence, left to right
RECURSIVE Remove(_, _)
Remove(s, old) ==
    IF Len(s) < Len(old) THEN s
    ELSE IF Slice(s, 0, Len(old)) = old THEN Remove(Slice(s, Len(old), Len(s)), old)
    ELSE <<Head(s)>> \o Remove(Tail(s), old)

\* struct.unpack('<I', b)[0]
Unpack(b) == b[1] + 256 * b[2] + 65536 * b[3] + 16777216 * b[4]

\* struct.pack('<I', n), used to build inputs
Pack(n) == << n % 256, (n \div 256) % 256, (n \div 65536) % 256, (n \div 16777216) % 256 >>

-----------------------------------------------------------------------------
(* extract_webp_from_ctex: the frame checks and the output name *)

webp_sig == <<82, 73, 70, 70>>

webp_tag == <<87, 69, 66, 80>>

ctex_suffix == <<".", "c", "t", "e", "x">>

webp_ext == <<".", "w", "e", "b", "p">>

\* FrameEnd with the size taken to count the whole chunk after the marker
FrameEndShort(p, size) == p + size + 4

\* the end offset of the frame of a declared size at offset p
FrameEnd(p, size) == p + size + 8

\* IsFrameAt without the test of the declared size against len(data)
IsFrameAtUnbounded(d, p) ==
    /\ p + 12 <= Len(d)
    /\ Slice(d, p + 8, p + 12) = webp_tag

\* IsFrameAt without the test of the type tag
IsFrameAtUntagged(d, p) ==
    /\ p + 12 <= Len(d)
    /\ FrameEnd(p, Unpack(Slice(d, p + 4, p + 8))) <= Len(d)

\* the three nested ifs: 12 bytes left, the type tag, the declared size in range
IsFrameAt(d, p) ==
    /\ p + 12 <= Len(d)
    /\ Slice(d, p + 8, p + 12) = webp_tag
    /\ FrameEnd(p, Unpack(Slice(d, p + 4, p + 8))) <= Len(d)

\* webp_data
FrameAt(d, p) == Slice(d, p, FrameEnd(p, Unpack(Slice(d, p + 4, p + 8))))

\* the base name: before the first '-', else with '.ctex' replaced by ''
BaseName(file_name) ==
    IF Contains(file_name, <<"-">>) THEN BeforeFirst(file_name, <<"-">>)
    ELSE Remove(file_name, ctex_suffix)

\* OriginalName with '.webp' appended whether or not there is an extension
OriginalNameAlwaysExt(file_name) == BaseName(file_name) \o webp_ext

\* original_name, the name of the output file
OriginalName(file_name) ==
    IF ~Contains(BaseName(file_name), <<".">>) THEN BaseName(file_name) \o webp_ext
    ELSE BaseName(file_name)

\* open(output_path, 'wb') cannot succeed on the directory entries . and ..
IsDirEntry(name) == name \in { <<".">>, <<".", ".">> }

\* Store with the file opened for appending, 'ab'
StoreAppend(dir, name, bytes) ==
    [n \in DOMAIN dir \cup {name} |->
        IF n # name THEN dir[n]
        ELSE IF name \in DOMAIN dir THEN dir[name] \o bytes ELSE bytes]

\* with open(output_path, 'wb') as out_f: out_f.write(bytes)
Store(dir, name, bytes) ==
    [n \in DOMAIN dir \cup {name} |-> IF n = name THEN bytes ELSE dir[n]]

Extracted(name) == [ok |-> TRUE, name |-> name, reason |-> "none"]

NotFound == [ok |-> FALSE, name |-> <<>>, reason |-> "not_found"]

Failed == [ok |-> FALSE, name |-> <<>>, reason |-> "exception"]

NoResult == [ok |-> FALSE, name |-> <<>>, reason |-> "none"]

-----------------------------------------------------------------------------
(* The inputs: containers as glob("*.ctex") can return them *)

\* a frame header declaring `size`
Header(size) == webp_sig \o Pack(size) \o webp_tag

\* the pieces scanned buffers are built from: the bare marker, the bare tag,
\* a bare size field, a filler byte, and headers whose declared size is
\* below the tag (0), exact (4), one byte of payload (5), or out of range
ChunkSet ==
    { webp_sig, webp_tag, Pack(4), <<0>> }
        \cup { Header(size) : size \in {0, 4, 5, 2000000000} }

\* every buffer of at most MaxChunks pieces (the empty file included)
ScanBuffers ==
    UNION { { Flatten(f) : f \in [1..n -> ChunkSet] } : n \in 0..MaxChunks }

\* every buffer of at most LiveChunks pieces
LiveBuffers ==
    UNION { { Flatten(f) : f \in [1..n -> ChunkSet] } : n \in 0..LiveChunks }

\* "sprite.png-ab12cd34.ctex", "sprite.png-ffff0000.ctex" (the same image
\* imported twice), "icon-9f8e.ctex", "noext-xyz.ctex"
SpriteName == <<"s", "p", "r", "i", "t", "e", ".", "p", "n", "g", "-", "a", "b", "1", "2", "c", "d", "3", "4", ".", "c", "t", "e", "x">>

SpriteName2 == <<"s", "p", "r", "i", "t", "e", ".", "p", "n", "g", "-", "f", "f", "f", "f", "0", "0", "0", "0", ".", "c", "t", "e", "x">>

IconName == <<"i", "c", "o", "n", "-", "9", "f", "8", "e", ".", "c", "t", "e", "x">>

NoextName == <<"n", "o", "e", "x", "t", "-", "x", "y", "z", ".", "c", "t", "e", "x">>

BatchNames == { SpriteName, SpriteName2, IconName, NoextName }

\* one frame at offset 0; a header that overruns, then a 13-byte frame;
\* a marker with no frame behind it
BatchBuffers ==
    { Header(4),
      Header(20) \o Header(5) \o <<7>>,
      webp_sig \o <<0>> }

\* the pieces generated file names are built from
NamePartSet == { <<"a">>, <<".">>, <<"-">>, ctex_suffix, <<".", "p", "n", "g">> }

\* every name *.ctex whose stem has at most MaxNameParts pieces
GeneratedNames ==
    UNION { { Flatten(f) \o ctex_suffix : f \in [1..n -> NamePartSet] }
            : n \in 0..MaxNameParts }

File(name, bytes) == [name |-> name, data |-> bytes]

EmptyDir == << >>

\* output_dir.mkdir(exist_ok = True): the directory may hold earlier output
StaleDir == Store(EmptyDir, <<"i", "c", "o", "n", ".", "w", "e", "b", "p">>, <<1, 2, 3>>)

\* one directory holds each file name once
DistinctNames(files) ==
    \A j, k \in 1..Len(files) : j # k => files[j].name # files[k].name

Start(files, dir) ==
    /\ ctex_files = files
    /\ outdir = dir
    /\ i = 1
    /\ pc = "loop"
    /\ data = <<>>
    /\ pos = 0
    /\ result = NoResult
    /\ success_count = 0
    /\ failed_count = 0
    /\ failed_files = <<>>
    /\ examined = <<>>
    /\ returned = <<>>
    /\ io = "none"

\* a batch of up to MaxFiles containers
Init ==
    \E n \in 0..MaxFiles :
        \E names \in [1..n -> BatchNames], bufs \in [1..n -> BatchBuffers],
           dir \in {EmptyDir, StaleDir} :
            /\ DistinctNames([j \in 1..n |-> File(names[j], bufs[j])])
            /\ Start([j \in 1..n |-> File(names[j], bufs[j])], dir)

\* one container, every buffer
ScanInit ==
    \E buf \in ScanBuffers, dir \in {EmptyDir, StaleDir} :
        Start(<<File(IconName, buf)>>, dir)

\* one container, every short buffer
LiveInit ==
    \E buf \in LiveBuffers : Start(<<File(IconName, buf)>>, EmptyDir)

\* one container, every name
NameInit ==
    \E name \in GeneratedNames \cup BatchNames, buf \in BatchBuffers :
        Start(<<File(name, buf)>>, EmptyDir)

-----------------------------------------------------------------------------
(* extract_webp_from_ctex, one step per statement group *)

\* open(ctex_path, 'rb') and f.read() succeed; pos = 0
OpenRead ==
    /\ pc = "loop"
    /\ i <= Len(ctex_files)
    /\ data' = ctex_files[i].data
    /\ pos' = 0
    /\ examined' = <<>>
    /\ io' = "ok"
    /\ pc' = "scan"
    /\ UNCHANGED <<ctex_files, outdir, i, result, success_count, failed_count,
                   failed_files, returned>>

\* open or read raises: except Exception returns (False, str(e))
ReadError ==
    /\ pc = "loop"
    /\ i <= Len(ctex_files)
    /\ data' = <<>>
    /\ pos' = 0
    /\ examined' = <<>>
    /\ io' = "read_error"
    /\ result' = Failed
    /\ returned' = Append(returned, Failed)
    /\ pc' = "ret"
    /\ UNCHANGED <<ctex_files, outdir, i, success_count, failed_count, failed_files>>

\* data.find gives -1: break, return (False, not found)
ScanExhausted ==
    /\ pc = "scan"
    /\ Find(data, webp_sig, pos) = -1
    /\ pos' = -1
    /\ result' = NotFound
    /\ returned' = Append(returned, NotFound)
    /\ pc' = "ret"
    /\ UNCHANGED <<ctex_files, outdir, i, data, success_count, failed_count,
                   failed_files, examined, io>>

\* ScanReject with the failed candidate ending the call: return, not pos += 1
ScanRejectFatal ==
    /\ pc = "scan"
    /\ Find(data, webp_sig, pos) # -1
    /\ ~IsFrameAt(data, Find(data, webp_sig, pos))
    /\ pos' = Find(data, webp_sig, pos)
    /\ examined' = Append(examined, Find(data, webp_sig, pos))
    /\ result' = NotFound
    /\ returned' = Append(returned, NotFound)
    /\ pc' = "ret"
    /\ UNCHANGED <<ctex_files, outdir, i, data, success_count, failed_count,
                   failed_files, io>>

\* ScanReject without the pos += 1
ScanRejectStay ==
    /\ pc = "scan"
    /\ Find(data, webp_sig, pos) # -1
    /\ ~IsFrameAt(data, Find(data, webp_sig, pos))
    /\ pos' = Find(data, webp_sig, pos)
    /\ examined' = Append(examined, Find(data, webp_sig, pos))
    /\ UNCHANGED <<ctex_files, outdir, i, pc, data, result, success_count,
                   failed_count, failed_files, returned, io>>

\* data.find gives an offset that fails one of the three ifs: pos += 1
ScanReject ==
    /\ pc = "scan"
    /\ Find(data, webp_sig, pos) # -1
    /\ ~IsFrameAt(data, Find(data, webp_sig, pos))
    /\ pos' = Find(data, webp_sig, pos) + 1
    /\ examined' = Append(examined, Find(data, webp_sig, pos))
    /\ UNCHANGED <<ctex_files, outdir, i, pc, data, result, success_count,
                   failed_count, failed_files, returned, io>>

\* data.find gives a frame: the name is derived, the frame written, and
\* (True, output_path.name) returned
WriteFrame ==
    /\ pc = "scan"
    /\ Find(data, webp_sig, pos) # -1
    /\ IsFrameAt(data, Find(data, webp_sig, pos))
    /\ ~IsDirEntry(OriginalName(ctex_files[i].name))
    /\ pos' = Find(data, webp_sig, pos)
    /\ examined' = Append(examined, Find(data, webp_sig, pos))
    /\ outdir' = Store(outdir, OriginalName(ctex_files[i].name),
                       FrameAt(data, Find(data, webp_sig, pos)))
    /\ result' = Extracted(OriginalName(ctex_files[i].name))
    /\ returned' = Append(returned, Extracted(OriginalName(ctex_files[i].name)))
    /\ pc' = "ret"
    /\ UNCHANGED <<ctex_files, i, data, success_count, failed_count,
                   failed_files, io>>

\* WriteError with the exception leaving extract_webp_from_ctex: the batch ends
WriteErrorEscapes ==
    /\ pc = "scan"
    /\ Find(data, webp_sig, pos) # -1
    /\ IsFrameAt(data, Find(data, webp_sig, pos))
    /\ io' = "write_error"
    /\ pc' = "done"
    /\ UNCHANGED <<ctex_files, outdir, i, data, pos, result, success_count,
                   failed_count, failed_files, examined, returned>>

\* data.find gives a frame but open(output_path, 'wb') or the write raises:
\* the file is untouched, or created and left with part of the frame
WriteError ==
    /\ pc = "scan"
    /\ Find(data, webp_sig, pos) # -1
    /\ IsFrameAt(data, Find(data, webp_sig, pos))
    /\ pos' = Find(data, webp_sig, pos)
    /\ examined' = Append(examined, Find(data, webp_sig, pos))
    /\ \/ outdir' = outdir
       \/ /\ ~IsDirEntry(OriginalName(ctex_files[i].name))
          /\ \E n \in 0..Min(MaxTorn, Len(FrameAt(data, Find(data, webp_sig, pos)))) :
                outdir' = Store(outdir, OriginalName(ctex_files[i].name),
                                Slice(FrameAt(data, Find(data, webp_sig, pos)), 0, n))
    /\ io' = "write_error"
    /\ result' = Failed
    /\ returned' = Append(returned, Failed)
    /\ pc' = "ret"
    /\ UNCHANGED <<ctex_files, i, data, success_count, failed_count, failed_files>>

-----------------------------------------------------------------------------
(* extract_images: the loop over ctex_files *)

\* Tally with the failing file's name not kept
TallyNoName ==
    /\ pc = "ret"
    /\ IF result.ok
         THEN /\ success_count' = success_count + 1
              /\ UNCHANGED failed_count
         ELSE /\ failed_count' = failed_count + 1
              /\ UNCHANGED success_count
    /\ UNCHANGED failed_files
    /\ i' = i + 1
    /\ io' = "none"
    /\ pc' = "loop"
    /\ UNCHANGED <<ctex_files, outdir, data, pos, result, examined, returned>>

\* if success: success_count += 1, else: failed_count += 1 and the name kept
Tally ==
    /\ pc = "ret"
    /\ IF result.ok
         THEN /\ success_count' = success_count + 1
              /\ UNCHANGED <<failed_count, failed_files>>
         ELSE /\ failed_count' = failed_count + 1
              /\ failed_files' = Append(failed_files, ctex_files[i].name)
              /\ UNCHANGED success_count
    /\ i' = i + 1
    /\ io' = "none"
    /\ pc' = "loop"
    /\ UNCHANGED <<ctex_files, outdir, data, pos, result, examined, returned>>

\* the for loop is exhausted: the summary is printed
Finish ==
    /\ pc = "loop"
    /\ i > Len(ctex_files)
    /\ pc' = "done"
    /\ UNCHANGED <<ctex_files, outdir, i, data, pos, result, success_count,
                   failed_count, failed_files, examined, returned, io>>

Next ==
    \/ OpenRead
    \/ ReadError
    \/ ScanExhausted
    \/ ScanReject
    \/ WriteFrame
    \/ WriteError
    \/ Tally
    \/ Finish

\* a batch
Spec == Init /\ [][Next]_vars

\* one container, every buffer
ScanSpec == ScanInit /\ [][Next]_vars

\* one container, every name
NameSpec == NameInit /\ [][Next]_vars

\* the interpreter runs the next statement: a single thread never stalls
LiveScanSpec == LiveInit /\ [][Next]_vars /\ WF_vars(Next)

-----------------------------------------------------------------------------
(* The frame format, stated on the bytes alone *)

\* the container the current call was given
Buffer == ctex_files[i].data

\* the set of elements of a sequence
Range(seq) == { seq[j] : j \in DOMAIN seq }

\* the bytes 'R','I','F','F' at 0-based offset k
MarkerAt(buf, k) ==
    /\ k >= 0
    /\ k + 4 <= Len(buf)
    /\ buf[k + 1] = 82 /\ buf[k + 2] = 73 /\ buf[k + 3] = 70 /\ buf[k + 4] = 70

\* the bytes 'W','E','B','P' at 0-based offsets k+8 .. k+12
TagAt(buf, k) ==
    /\ k + 12 <= Len(buf)
    /\ buf[k + 9] = 87 /\ buf[k + 10] = 69 /\ buf[k + 11] = 66 /\ buf[k + 12] = 80

\* the little-endian unsigned 32-bit integer at offsets k+4 .. k+8
DeclaredSize(buf, k) ==
    buf[k + 5] + 256 * buf[k + 6] + 65536 * buf[k + 7] + 16777216 * buf[k + 8]

\* a well-formed frame at offset k
WellFormedAt(buf, k) ==
    /\ MarkerAt(buf, k)
    /\ TagAt(buf, k)
    /\ k + 8 + DeclaredSize(buf, k) <= Len(buf)

\* buffer[k : k + 8 + size]
FrameBytes(buf, k) == SubSeq(buf, k + 1, k + 8 + DeclaredSize(buf, k))

Offsets(buf) == 0..Len(buf)

HasFrame(buf) == \E k \in Offsets(buf) : WellFormedAt(buf, k)

\* the smallest offset of a well-formed frame at or after `from`
FirstFrameFrom(buf, from) ==
    CHOOSE k \in Offsets(buf) :
        /\ k >= from
        /\ WellFormedAt(buf, k)
        /\ \A m \in from..(k - 1) : ~WellFormedAt(buf, m)

\* a marker whose size field is there and declares more than the buffer holds
Overruns(buf, k) ==
    /\ MarkerAt(buf, k)
    /\ k + 8 <= Len(buf)
    /\ k + 8 + DeclaredSize(buf, k) > Len(buf)

\* the call has returned and no read or write raised
ReturnedNoFault == pc = "ret" /\ io = "ok"

\* the file the call reports to have written
Written == outdir[result.name]

-----------------------------------------------------------------------------
(* C1 *)

\* C1 as stated: whenever the buffer holds a well-formed frame at offset k,
\* the call succeeds and the bytes of the output file are buffer[k : k+8+size].
C1_AnyFrameIsWritten ==
    ReturnedNoFault =>
        \A k \in Offsets(Buffer) :
            WellFormedAt(Buffer, k) =>
                /\ result.ok
                /\ Written = FrameBytes(Buffer, k)

\* C1, amended: whenever the buffer holds a well-formed frame and k is the
\* smallest offset of one, the call (no read or write raising) succeeds and
\* the bytes of the output file are exactly buffer[k : k+8+size].
C1_FirstFrameIsWritten ==
    (ReturnedNoFault /\ HasFrame(Buffer)) =>
        /\ result.ok
        /\ result.name \in DOMAIN outdir
        /\ Written = FrameBytes(Buffer, FirstFrameFrom(Buffer, 0))

\* a frame with payload, not at the start of the buffer, has been written
C1_Witness ==
    /\ ReturnedNoFault
    /\ result.ok
    /\ HasFrame(Buffer)
    /\ FirstFrameFrom(Buffer, 0) > 0
    /\ DeclaredSize(Buffer, FirstFrameFrom(Buffer, 0)) > 4
    /\ Written = FrameBytes(Buffer, FirstFrameFrom(Buffer, 0))

-----------------------------------------------------------------------------
(* C2 *)

\* the marker offsets of buf up to and including offset o, ascending
RECURSIVE MarkersUpTo(_, _, _)
MarkersUpTo(buf, from, o) ==
    IF from > o THEN <<>>
    ELSE IF MarkerAt(buf, from) THEN <<from>> \o MarkersUpTo(buf, from + 1, o)
    ELSE MarkersUpTo(buf, from + 1, o)

\* C2: on success the frame written starts at the smallest offset that passes
\* the marker, 12-byte, type-tag and bounds checks; every marker before it
\* failed a check; the offsets examined are the markers up to it and none
\* after it; one file is written.
C2_FirstValidOffsetWins ==
    (pc = "ret" /\ result.ok) =>
        /\ WellFormedAt(Buffer, pos)
        /\ \A m \in 0..(pos - 1) : ~WellFormedAt(Buffer, m)
        /\ Written = FrameBytes(Buffer, pos)
        /\ examined = MarkersUpTo(Buffer, 0, pos)
        /\ DOMAIN outdir = {result.name}

\* a success behind two rejected markers, with a further frame after it
C2_Witness ==
    /\ pc = "ret"
    /\ result.ok
    /\ Len(examined) = 3
    /\ \E k \in Offsets(Buffer) : k > pos /\ WellFormedAt(Buffer, k)

-----------------------------------------------------------------------------
(* C3 *)

\* C3 as stated: every marker whose declared size overruns the buffer is
\* examined and rejected, and when a well-formed frame starts later the call
\* succeeds with a frame that starts after that marker.
C3_EveryOverrunIsPassed ==
    ReturnedNoFault =>
        \A k \in Offsets(Buffer) :
            Overruns(Buffer, k) =>
                /\ k \in Range(examined)
                /\ ~(result.ok /\ pos = k)
                /\ (\E j \in Offsets(Buffer) : j > k /\ WellFormedAt(Buffer, j)) =>
                        (result.ok /\ pos > k)

\* the call has returned what C3 (amended) says for the overrunning markers
\* that no well-formed frame precedes
C3_Returned ==
    ReturnedNoFault =>
        \A k \in Offsets(Buffer) :
            (Overruns(Buffer, k) /\ \A m \in 0..(k - 1) : ~WellFormedAt(Buffer, m)) =>
                /\ k \in Range(examined)
                /\ ~(result.ok /\ pos = k)
                /\ (\E j \in Offsets(Buffer) : j > k /\ WellFormedAt(Buffer, j)) =>
                        /\ result.ok
                        /\ pos = FirstFrameFrom(Buffer, k + 1)
                        /\ Written = FrameBytes(Buffer, FirstFrameFrom(Buffer, k + 1))

\* the step taken at a marker that overruns: the call goes on, at k + 1
C3_Step ==
    (pc = "scan" /\ Find(data, webp_sig, pos) # -1
                 /\ Overruns(data, Find(data, webp_sig, pos))) =>
        /\ pc' = "scan"
        /\ pos' = Find(data, webp_sig, pos) + 1
        /\ outdir' = outdir
        /\ returned' = returned

\* C3, amended: a marker at offset k whose declared size overruns the buffer,
\* with no well-formed frame before k, is rejected without failing the call
\* and the scan resumes at k + 1; when a well-formed frame starts later, the
\* first such frame is the one written and the call (no read or write
\* raising) succeeds.
C3_OverrunIsPassed == [](C3_Returned) /\ [][C3_Step]_vars

\* a frame written from behind a marker that passed the tag check and overran
C3_Witness ==
    /\ ReturnedNoFault
    /\ result.ok
    /\ \E k \in Range(examined) :
          /\ Overruns(Buffer, k)
          /\ TagAt(Buffer, k)
          /\ k < pos
    /\ Written = FrameBytes(Buffer, pos)

-----------------------------------------------------------------------------
(* C4 *)

\* while a buffer without a well-formed frame is scanned, nothing is written
\* and the call can only return not-found
C4_Step ==
    (pc = "scan" /\ ~HasFrame(data)) =>
        /\ outdir' = outdir
        /\ pc' \in {"scan", "ret"}
        /\ (pc' = "ret" => result' = NotFound)

\* the call has returned not-found when the buffer read holds no frame
C4_Returned ==
    (ReturnedNoFault /\ ~HasFrame(Buffer)) =>
        /\ result = NotFound
        /\ ~result.ok
        /\ result.reason = "not_found"
        /\ outdir \in {EmptyDir, StaleDir}

\* C4: for a buffer with no structurally valid frame (no marker, or every
\* marker failing the 12-byte, tag or bounds check) the call returns NotFound
\* and leaves the destination directory as it was.
C4_NoFrameIsNotFound == [](C4_Returned) /\ [][C4_Step]_vars

\* not-found returned after markers were examined, the directory's earlier
\* file still in place
C4_Witness ==
    /\ pc = "ret"
    /\ result = NotFound
    /\ Len(examined) >= 2
    /\ \E k \in Range(examined) : TagAt(Buffer, k)
    /\ outdir = StaleDir

-----------------------------------------------------------------------------
(* The file-name rules, stated on the characters alone *)

\* the container's own file name
FileName == ctex_files[i].name

HasChar(name, c) == \E j \in 1..Len(name) : name[j] = c

HasSubstring(name, sub) ==
    \E j \in 0..(Len(name) - Len(sub)) : SubSeq(name, j + 1, j + Len(sub)) = sub

\* the part of name before its first c
UpToFirst(name, c) ==
    SubSeq(name, 1, (CHOOSE j \in 1..Len(name) :
                        name[j] = c /\ \A m \in 1..(j - 1) : name[m] # c) - 1)

EndsWith(name, suffix) ==
    /\ Len(name) >= Len(suffix)
    /\ SubSeq(name, Len(name) - Len(suffix) + 1, Len(name)) = suffix

\* name with only a trailing suffix removed
WithoutSuffix(name, suffix) ==
    IF EndsWith(name, suffix) THEN SubSeq(name, 1, Len(name) - Len(suffix)) ELSE name

RuleBase(name) ==
    IF HasChar(name, "-") THEN UpToFirst(name, "-")
    ELSE WithoutSuffix(name, <<".", "c", "t", "e", "x">>)

\* the output name by the rules of the specification
RuleName(name) ==
    IF HasChar(RuleBase(name), ".") THEN RuleBase(name)
    ELSE RuleBase(name) \o <<".", "w", "e", "b", "p">>

-----------------------------------------------------------------------------
(* C5 *)

\* C5: the output name is the part of F before its first '-', or else F with
\* only its trailing '.ctex' removed, with '.webp' appended when that has no
\* '.'; so sprite.png-ab12cd34.ctex gives sprite.png, icon-9f8e.ctex gives
\* icon.webp and noext-xyz.ctex gives noext.webp.
C5_NameFollowsRules ==
    /\ OriginalName(SpriteName) = <<"s", "p", "r", "i", "t", "e", ".", "p", "n", "g">>
    /\ OriginalName(IconName) = <<"i", "c", "o", "n", ".", "w", "e", "b", "p">>
    /\ OriginalName(NoextName) = <<"n", "o", "e", "x", "t", ".", "w", "e", "b", "p">>
    /\ (pc = "ret" /\ result.ok) => result.name = RuleName(FileName)

-----------------------------------------------------------------------------
(* C6 *)

-----------------------------------------------------------------------------
(* C7 *)

\* the files whose result has been counted
Counted == i - 1

\* the names of the files among the first n whose call returned a failure
RECURSIVE FailedNames(_)
FailedNames(n) ==
    IF n = 0 THEN <<>>
    ELSE IF returned[n].ok THEN FailedNames(n - 1)
    ELSE Append(FailedNames(n - 1), ctex_files[n].name)

\* C7: at every point of the loop success_count + failed_count is the number
\* of files processed, failed_count is the number of them that failed and
\* failed_files their names; the loop ends only after all N files, so with
\* M failures it ends with failed_count = M and success_count = N - M.
C7_CountsMatch ==
    /\ success_count + failed_count = Counted
    /\ Len(returned) >= Counted
    /\ failed_count = Cardinality({ j \in 1..Counted : ~returned[j].ok })
    /\ success_count = Counted - Cardinality({ j \in 1..Counted : ~returned[j].ok })
    /\ failed_files = FailedNames(Counted)
    /\ pc = "done" => (Counted = Len(ctex_files) /\ Len(returned) = Len(ctex_files))

\* a batch has ended with one failure followed by one success
C7_Witness ==
    /\ pc = "done"
    /\ Len(ctex_files) = 2
    /\ ~returned[1].ok
    /\ returned[2].ok
    /\ failed_count = 1
    /\ success_count = 1
    /\ failed_files = <<ctex_files[1].name>>

-----------------------------------------------------------------------------
(* C8 *)

\* a read or write that raised has been turned into the call's Failed result
C8_Caught ==
    io \in {"read_error", "write_error"} =>
        /\ pc = "ret"
        /\ result = Failed
        /\ ~result.ok
        /\ result.reason = "exception"
        /\ Len(returned) = i
        /\ returned[i] = Failed

\* the batch is never stopped short: a returned result can be counted, the
\* next file can be opened, and the batch is done only with one result per
\* file
C8_Continues ==
    /\ pc = "ret" => ENABLED Tally
    /\ (pc = "loop" /\ i <= Len(ctex_files)) => ENABLED OpenRead
    /\ pc = "done" => Len(returned) = Len(ctex_files)
    /\ pc = "loop" => Len(returned) = i - 1

\* a returned result is counted and the loop moves to the next file: no file
\* is given a second call
C8_Step ==
    /\ pc = "ret" => (pc' = "loop" /\ i' = i + 1)
    /\ i' >= i
    /\ (pc = "loop" /\ pc' # "loop" /\ pc' # "done") => Len(returned') <= i

\* C8: a read or write failure in one extraction is caught in
\* extract_webp_from_ctex and returned as a Failed result with the error's
\* description; nothing escapes to the batch loop, the file is not retried
\* and the files after it are still processed.
C8_FailureIsContained == [](C8_Caught /\ C8_Continues) /\ [][C8_Step]_vars

\* a batch has ended in which the first file failed on I/O and the second
\* was extracted
C8_Witness ==
    /\ pc = "done"
    /\ Len(ctex_files) = 2
    /\ returned[1] = Failed
    /\ returned[2].ok
    /\ failed_files = <<ctex_files[1].name>>

-----------------------------------------------------------------------------
(* C9 *)

\* files j < k were both extracted under one output name, and no later file
\* derives that name
LastOfName(j, k) ==
    /\ j < k
    /\ returned[j].ok
    /\ returned[k].ok
    /\ returned[j].name = returned[k].name
    /\ \A m \in (k + 1)..Len(ctex_files) :
          OriginalName(ctex_files[m].name) # returned[k].name

\* C9: when two containers of a batch derive the same output name and both
\* are extracted, both count as successes and after the batch the file of
\* that name holds exactly the frame of the later one.
C9_LastWriterWins ==
    pc = "done" =>
        \A j, k \in 1..Len(ctex_files) :
            LastOfName(j, k) =>
                /\ success_count = Cardinality({ m \in 1..Len(ctex_files) : returned[m].ok })
                /\ success_count >= 2
                /\ outdir[returned[k].name] =
                      FrameBytes(ctex_files[k].data, FirstFrameFrom(ctex_files[k].data, 0))

\* a 12-byte frame has replaced a 13-byte frame of the same output name
C9_Witness ==
    /\ pc = "done"
    /\ Len(ctex_files) = 2
    /\ LastOfName(1, 2)
    /\ Len(FrameBytes(ctex_files[1].data, FirstFrameFrom(ctex_files[1].data, 0))) = 13
    /\ Len(outdir[returned[2].name]) = 12

-----------------------------------------------------------------------------
(* C10 *)

\* the offsets examined are marker offsets in strictly increasing order
C10_Ascending ==
    pc \in {"scan", "ret"} /\ io # "read_error" =>
        /\ \A j \in 1..Len(examined) : MarkerAt(Buffer, examined[j])
        /\ \A j \in 1..(Len(examined) - 1) : examined[j] < examined[j + 1]

\* the loop has ended with a frame extracted or with no marker left
C10_End ==
    ReturnedNoFault =>
        \/ result.ok
        \/ /\ result = NotFound
           /\ \A k \in Offsets(Buffer) :
                 MarkerAt(Buffer, k) => (examined # <<>> /\ k <= examined[Len(examined)])

\* an iteration that rejects its candidate resumes one past it, further on
C10_Step ==
    (pc = "scan" /\ pc' = "scan") =>
        /\ pos' > pos
        /\ examined' # <<>>
        /\ pos' = examined'[Len(examined')] + 1
        /\ pos' <= Len(data)

\* C10: the scan loop terminates on every buffer: its candidates are marker
\* offsets in strictly increasing order, pos strictly increases with every
\* rejected candidate (to offset + 1), and the loop ends with an extraction
\* or with no marker left at or after pos.
C10_ScanTerminates ==
    /\ [](C10_Ascending /\ C10_End)
    /\ [][C10_Step]_vars
    /\ (pc = "scan") ~> (pc = "ret")

\* a loop has ended not-found after two rejected candidates, the first a
\* header whose size overruns, the second a marker that ends the buffer
C10_Witness ==
    /\ pc = "ret"
    /\ result = NotFound
    /\ pos = -1
    /\ Len(examined) = 2
    /\ TagAt(Buffer, examined[1])
    /\ examined[2] + 4 = Len(Buffer)

====
